---- MODULE Spec2Model ----
(***************************************************************************)
(* Model of the Zaptec charge-history parser of spot-pricing               *)
(* (src/src/zaptec.py): time_floor, fallback_utc, ChargeHistoryParser.     *)
(*                                                                         *)
(* A datetime is the record of its fields                                  *)
(*   [ord, hour, minute, second, microsecond, tzinfo]                      *)
(* where ord is the proleptic ordinal of the calendar date                 *)
(* (datetime.min has ord = 1) and tzinfo is <<>> for a naive datetime and  *)
(* <<offset in seconds>> for an aware one.  A timedelta is the normalised  *)
(* record [days, seconds, microseconds] of Python.  A float is modelled as *)
(* an exact rational <<numerator, denominator>> in lowest terms with a     *)
(* positive denominator.                                                   *)
(***************************************************************************)
EXTENDS Integers, Sequences, FiniteSets, TLC

(***************************************************************************)
(* Exact rationals standing for Python floats.                             *)
(***************************************************************************)
Abs(n) == IF n < 0 THEN -n ELSE n

RECURSIVE Gcd(_, _)
Gcd(a, b) == IF b = 0 THEN Abs(a) ELSE Gcd(b, a % Abs(b))

RMake(n, d) ==
    LET g == Gcd(n, d)
        s == IF d < 0 THEN -1 ELSE 1
    IN  <<s * (n \div g), s * (d \div g)>>

RZero == <<0, 1>>

RAdd(x, y) ==
    LET g == Gcd(x[2], y[2])
    IN  RMake(x[1] * (y[2] \div g) + y[1] * (x[2] \div g), x[2] * (y[2] \div g))

RNeg(x) == <<-x[1], x[2]>>

RSub(x, y) == RAdd(x, RNeg(y))

RMul(x, y) ==
    LET a == RMake(x[1], y[2])
        b == RMake(y[1], x[2])
    IN  RMake(a[1] * b[1], a[2] * b[2])

RAbs(x) == <<Abs(x[1]), x[2]>>

RLess(x, y) == x[1] * y[2] < y[1] * x[2]

(***************************************************************************)
(* datetime and timedelta arithmetic, as CPython's datetime does it.       *)
(***************************************************************************)
SecondsPerDay == 24 * 3600

MicrosPerSecond == 1000 * 1000

\* timedelta(days=, seconds=, microseconds=): the constructor's normalisation
timedelta(days, seconds, microseconds) ==
    LET s   == seconds + (microseconds \div MicrosPerSecond)
        us  == microseconds % MicrosPerSecond
        d   == days + (s \div SecondsPerDay)
    IN  [days |-> d, seconds |-> s % SecondsPerDay, microseconds |-> us]

TdAdd(a, b) ==
    timedelta(a.days + b.days, a.seconds + b.seconds, a.microseconds + b.microseconds)

TdNeg(a) == timedelta(-a.days, -a.seconds, -a.microseconds)

FifteenMinutes == timedelta(0, 15 * 60, 0)

\* time.replace(tzinfo=None) - datetime.min
SinceMin(time) ==
    [days         |-> time.ord - 1,
     seconds      |-> time.hour * 3600 + time.minute * 60 + time.second,
     microseconds |-> time.microsecond]

\* datetime + timedelta: wall-clock arithmetic, tzinfo kept
DtAdd(time, td) ==
    LET sum == TdAdd(SinceMin(time), td)
    IN  [ord         |-> sum.days + 1,
         hour        |-> sum.seconds \div 3600,
         minute      |-> (sum.seconds % 3600) \div 60,
         second      |-> sum.seconds % 60,
         microsecond |-> sum.microseconds,
         tzinfo      |-> time.tzinfo]

IsAware(time) == time.tzinfo # <<>>

\* the offset from datetime.min of the UTC instant of an aware datetime,
\* of the wall clock of a naive one
Instant(time) ==
    IF IsAware(time)
    THEN TdAdd(SinceMin(time), timedelta(0, -time.tzinfo[1], 0))
    ELSE SinceMin(time)

\* datetime - datetime (both naive or both aware)
DtSub(a, b) == TdAdd(Instant(a), TdNeg(Instant(b)))

TdLess(a, b) ==
    \/ a.days < b.days
    \/ a.days = b.days /\ a.seconds < b.seconds
    \/ a.days = b.days /\ a.seconds = b.seconds /\ a.microseconds < b.microseconds

\* datetime < datetime (both naive or both aware)
DtLess(a, b) == TdLess(Instant(a), Instant(b))

\* datetime == datetime, which is also the equality of dict keys: a naive
\* datetime never equals an aware one
DtEq(a, b) == IsAware(a) = IsAware(b) /\ Instant(a) = Instant(b)

\* timedelta / timedelta: the ratio of the two lengths
TdRatio(a, b) ==
    LET g  == Gcd(Gcd(a.microseconds, b.microseconds), MicrosPerSecond)
        k  == MicrosPerSecond \div g
        na == (a.days * SecondsPerDay + a.seconds) * k + a.microseconds \div g
        nb == (b.days * SecondsPerDay + b.seconds) * k + b.microseconds \div g
    IN  RMake(na, nb)

IsZeroTd(a) == a.days = 0 /\ a.seconds = 0 /\ a.microseconds = 0

(***************************************************************************)
(* time_floor and fallback_utc                                             *)
(***************************************************************************)
DefaultFloorToSeconds == 15 * 60

\* time_floor with the remainder added instead of subtracted
time_floor_sign_slip(time, floor_to_seconds) ==
    LET seconds  == SinceMin(time).seconds
        rounding == (seconds \div floor_to_seconds) * floor_to_seconds
    IN  DtAdd(time, timedelta(0, seconds - rounding, -time.microsecond))

\* time_floor that leaves the microseconds in place
time_floor_keeps_microseconds(time, floor_to_seconds) ==
    LET seconds  == SinceMin(time).seconds
        rounding == (seconds \div floor_to_seconds) * floor_to_seconds
    IN  DtAdd(time, timedelta(0, rounding - seconds, 0))

time_floor(time, floor_to_seconds) ==
    LET seconds  == SinceMin(time).seconds
        rounding == (seconds \div floor_to_seconds) * floor_to_seconds
    IN  DtAdd(time, timedelta(0, rounding - seconds, -time.microsecond))

fallback_utc(time) ==
    IF time.tzinfo # <<>> THEN time
    ELSE [ord         |-> time.ord,
          hour        |-> time.hour,
          minute      |-> time.minute,
          second      |-> time.second,
          microsecond |-> time.microsecond,
          tzinfo      |-> <<0>>]

(***************************************************************************)
(* dict[datetime, float] in insertion order: a sequence of [key, value].   *)
(***************************************************************************)
HasKey(consumption, key) ==
    \E k \in 1..Len(consumption) : DtEq(consumption[k].key, key)

\* consumption[key] = value: an equal key keeps its place (and the key object
\* first inserted), a new key goes last
SetItem(consumption, key, value) ==
    IF HasKey(consumption, key)
    THEN [k \in 1..Len(consumption) |->
            IF DtEq(consumption[k].key, key)
            THEN [key |-> consumption[k].key, value |-> value]
            ELSE consumption[k]]
    ELSE Append(consumption, [key |-> key, value |-> value])

(***************************************************************************)
(* ChargeHistoryParser._update_history_with_energy_details (Mode A)        *)
(*                                                                         *)
(* The result of an update is [outcome, consumption, total, writes,        *)
(* ratios]: outcome is "ok" or the class of the exception raised,          *)
(* consumption is history.consumption as the call leaves it, total is      *)
(* detail_energy_total, writes lists the assignments                       *)
(* history.consumption[...] = ... the call made, in order, and ratios the  *)
(* values of ratio it computed (Mode B only).                              *)
(***************************************************************************)
Tolerance == <<1, 10000>>

\* the assertion left out
EnergyMatches_unchecked(session_energy, detail_energy_total) == TRUE

EnergyMatches(session_energy, detail_energy_total) ==
    RLess(RAbs(RSub(session_energy, detail_energy_total)), Tolerance)

\* every reading in the bucket of its own timestamp
ConsumptionStart_own_bucket(energy_details, i, timestamp) ==
    time_floor(timestamp, DefaultFloorToSeconds)

ConsumptionStart(energy_details, i, timestamp) ==
    IF i = Len(energy_details)
    THEN time_floor(timestamp, DefaultFloorToSeconds)
    ELSE DtAdd(time_floor(timestamp, DefaultFloorToSeconds), TdNeg(FifteenMinutes))

\* energy > 0
DetailHasEnergy(energy_detail) == RLess(RZero, energy_detail.Energy)

RECURSIVE EnergyDetailsLoop(_, _, _, _, _)
EnergyDetailsLoop(energy_details, i, consumption, detail_energy_total, writes) ==
    IF i > Len(energy_details)
    THEN [outcome |-> "ok", consumption |-> consumption,
          total |-> detail_energy_total, writes |-> writes, ratios |-> <<>>]
    ELSE LET energy_detail == energy_details[i]
             raise(ex) == [outcome |-> ex, consumption |-> consumption,
                           total |-> detail_energy_total, writes |-> writes,
                           ratios |-> <<>>]
         IN  IF "Timestamp" \notin DOMAIN energy_detail THEN raise("KeyError")
             ELSE IF "Energy" \notin DOMAIN energy_detail THEN raise("KeyError")
             ELSE IF DetailHasEnergy(energy_detail)
             THEN LET consumption_start ==
                          ConsumptionStart(energy_details, i, energy_detail.Timestamp)
                      write == [key |-> consumption_start, value |-> energy_detail.Energy]
                  IN  IF HasKey(consumption, consumption_start)
                      THEN raise("RuntimeError")
                      ELSE EnergyDetailsLoop(
                               energy_details, i + 1,
                               SetItem(consumption, consumption_start, energy_detail.Energy),
                               RAdd(detail_energy_total, energy_detail.Energy),
                               Append(writes, write))
             ELSE EnergyDetailsLoop(energy_details, i + 1, consumption,
                                    detail_energy_total, writes)

update_history_with_energy_details(consumption, energy_details, session_energy) ==
    LET r == EnergyDetailsLoop(energy_details, 1, consumption, RZero, <<>>)
    IN  IF r.outcome # "ok" THEN r
        ELSE IF EnergyMatches(session_energy, r.total) THEN r
        ELSE [r EXCEPT !.outcome = "AssertionError"]

(***************************************************************************)
(* ChargeHistoryParser._update_history_with_session_energy (Mode B)        *)
(***************************************************************************)
\* the bucket's end not clamped to the end of the session
duration_unclamped_end(time, start_time, end_time) ==
    LET start == IF DtLess(start_time, time) THEN time ELSE start_time
    IN  DtSub(DtAdd(time, FifteenMinutes), start)

duration(time, start_time, end_time) ==
    LET start == IF DtLess(start_time, time) THEN time ELSE start_time
        end   == IF DtLess(DtAdd(time, FifteenMinutes), end_time)
                 THEN DtAdd(time, FifteenMinutes)
                 ELSE end_time
    IN  DtSub(end, start)

RECURSIVE SessionEnergyLoop(_, _, _, _, _, _, _, _)
SessionEnergyLoop(time, start_time, end_time, session_energy, consumption, detail_energy_total, writes, ratios) ==
    IF ~DtLess(time, end_time)
    THEN [outcome |-> "ok", consumption |-> consumption,
          total |-> detail_energy_total, writes |-> writes, ratios |-> ratios]
    ELSE LET charge_duration == DtSub(end_time, start_time)
         IN  IF IsZeroTd(charge_duration)
             THEN [outcome |-> "ZeroDivisionError", consumption |-> consumption,
                   total |-> detail_energy_total, writes |-> writes,
                   ratios |-> ratios]
             ELSE LET ratio  == TdRatio(duration(time, start_time, end_time),
                                        charge_duration)
                      energy == RMul(ratio, session_energy)
                  IN  SessionEnergyLoop(
                          DtAdd(time, FifteenMinutes), start_time, end_time,
                          session_energy,
                          SetItem(consumption, time, energy),
                          RAdd(detail_energy_total, energy),
                          Append(writes, [key |-> time, value |-> energy]),
                          Append(ratios, ratio))

\* the walk begun at start_time itself
update_history_with_session_energy_from_start(consumption, session_energy, start_time, end_time) ==
    LET r == SessionEnergyLoop(start_time, start_time, end_time, session_energy,
                               consumption, RZero, <<>>, <<>>)
    IN  IF r.outcome # "ok" THEN r
        ELSE IF EnergyMatches(session_energy, r.total) THEN r
        ELSE [r EXCEPT !.outcome = "AssertionError"]

update_history_with_session_energy(consumption, session_energy, start_time, end_time) ==
    LET r == SessionEnergyLoop(time_floor(start_time, DefaultFloorToSeconds),
                               start_time, end_time, session_energy,
                               consumption, RZero, <<>>, <<>>)
    IN  IF r.outcome # "ok" THEN r
        ELSE IF EnergyMatches(session_energy, r.total) THEN r
        ELSE [r EXCEPT !.outcome = "AssertionError"]

(***************************************************************************)
(* The document.  A session (an element of "Data") and a sub-reading are   *)
(* records whose domain is the set of keys present in the JSON object.     *)
(* A string that sorted() compares (a user name) is the sequence of its    *)
(* code points; a timestamp string is given by the datetime that           *)
(* datetime.fromisoformat returns for it; a number is given by its float.  *)
(***************************************************************************)
MaxSessions == 2

Dt(ord, hour, minute, second, microsecond, tzinfo) ==
    [ord |-> ord, hour |-> hour, minute |-> minute, second |-> second,
     microsecond |-> microsecond, tzinfo |-> tzinfo]

Utc == <<0>>

Naive == <<>>

Dec1 == 738855  \* date(2023, 12, 1).toordinal()

Dec7 == Dec1 + 6

R(n, d) == RMake(n, d)

Det(timestamp, energy) == [Timestamp |-> timestamp, Energy |-> energy]

\* user names: "al", "bo"
Al == <<97, 108>>

Bo == <<98, 111>>

DetailBodies ==
    { \* the two-reading session of 2023-12-07
      [Energy |-> R(5, 2),
       EnergyDetails |-> << Det(Dt(Dec7, 22, 15, 0, 0, Utc), R(1, 1)),
                            Det(Dt(Dec7, 22, 30, 0, 0, Utc), R(3, 2)) >>],
      \* a last reading without energy
      [Energy |-> R(1, 1),
       EnergyDetails |-> << Det(Dt(Dec7, 22, 15, 0, 0, Utc), R(1, 1)),
                            Det(Dt(Dec7, 22, 30, 0, 0, Utc), R(0, 1)) >>],
      \* a first reading without energy, readings off the grid
      [Energy |-> R(3, 2),
       EnergyDetails |-> << Det(Dt(Dec7, 22, 45, 0, 0, Utc), R(0, 1)),
                            Det(Dt(Dec7, 22, 59, 59, 999000, Utc), R(3, 2)) >>],
      \* the readings do not add up to the session's energy
      [Energy |-> R(2, 1),
       EnergyDetails |-> << Det(Dt(Dec7, 23, 15, 0, 0, Utc), R(1, 1)),
                            Det(Dt(Dec7, 23, 30, 0, 0, Utc), R(3, 2)) >>],
      \* two readings of one session in one bucket
      [Energy |-> R(5, 2),
       EnergyDetails |-> << Det(Dt(Dec7, 23, 30, 0, 0, Utc), R(1, 1)),
                            Det(Dt(Dec7, 23, 16, 22, 473000, Utc), R(3, 2)) >>],
      \* no readings at all
      [Energy |-> R(0, 1), EnergyDetails |-> << >>],
      \* a reading in another zone: 2023-12-08T00:31+02:00 is 22:31Z
      [Energy |-> R(1, 1),
       EnergyDetails |-> << Det(Dt(Dec7 + 1, 0, 31, 0, 0, <<7200>>), R(1, 1)) >>],
      \* a reading without Energy
      [Energy |-> R(1, 1),
       EnergyDetails |-> << [Timestamp |-> Dt(Dec7, 21, 15, 0, 0, Utc)] >>] }

FallbackBodies ==
    { \* 10:00Z to 10:20Z on 2023-12-01
      [Energy |-> R(2, 1),
       StartDateTime |-> Dt(Dec1, 10, 0, 0, 0, Utc),
       EndDateTime   |-> Dt(Dec1, 10, 20, 0, 0, Utc)],
      \* off the grid at both ends, over the buckets of the detailed sessions
      [Energy |-> R(3, 2),
       StartDateTime |-> Dt(Dec7, 22, 10, 0, 0, Utc),
       EndDateTime   |-> Dt(Dec7, 22, 40, 0, 0, Utc)],
      \* naive timestamps, starting in the bucket where the first one ends
      [Energy |-> R(1, 1),
       StartDateTime |-> Dt(Dec1, 10, 25, 0, 0, Naive),
       EndDateTime   |-> Dt(Dec1, 10, 50, 30, 500000, Naive)],
      \* no duration, off the grid
      [Energy |-> R(1, 1),
       StartDateTime |-> Dt(Dec1, 11, 5, 0, 0, Utc),
       EndDateTime   |-> Dt(Dec1, 11, 5, 0, 0, Utc)],
      \* no duration, on the grid, no energy
      [Energy |-> R(0, 1),
       StartDateTime |-> Dt(Dec1, 11, 30, 0, 0, Utc),
       EndDateTime   |-> Dt(Dec1, 11, 30, 0, 0, Utc)],
      \* ends before it starts
      [Energy |-> R(1, 1),
       StartDateTime |-> Dt(Dec1, 12, 10, 0, 0, Utc),
       EndDateTime   |-> Dt(Dec1, 12, 5, 0, 0, Utc)],
      \* no EndDateTime
      [Energy |-> R(1, 1),
       StartDateTime |-> Dt(Dec1, 13, 0, 0, 0, Utc)] }

BareBodies ==
    { [Energy |-> R(0, 1)],
      [Energy |-> R(1, 1)],
      [Energy |-> R(1, 20000)],
      [StartDateTime |-> Dt(Dec1, 13, 0, 0, 0, Utc),
       EndDateTime   |-> Dt(Dec1, 13, 20, 0, 0, Utc)] }

\* f extended by g: the keys of both
Merge(f, g) ==
    [k \in (DOMAIN f) \cup (DOMAIN g) |-> IF k \in DOMAIN g THEN g[k] ELSE f[k]]

Users ==
    { [UserUserName |-> Al, UserFullName |-> "Al A"],
      [UserUserName |-> Bo, UserFullName |-> "Bo B"] }

NoReadings == [Energy |-> R(0, 1), EnergyDetails |-> << >>]

\* timestamps only
Timed ==
    [StartDateTime |-> Dt(Dec1, 13, 0, 0, 0, Utc),
     EndDateTime   |-> Dt(Dec1, 13, 20, 0, 0, Utc)]

\* the sessions a document is made of; "Id" stands for the session's own Id
SessionPool ==
    LET identified == { Merge(u, b) : u \in Users, b \in DetailBodies \cup FallbackBodies }
        nameless   == { Merge([UserUserName |-> Al], b) : b \in {NoReadings, Timed} }
        energyless == { Merge(u, Timed) : u \in {x \in Users : x.UserUserName = Al} }
        anonymous  == BareBodies \cup {NoReadings}
        with_id    == { Merge(x, [Id |-> "Id"]) :
                          x \in identified \cup nameless \cup energyless
                                \cup anonymous }
        without_id == { x \in identified :
                          x.UserUserName = Al /\ x.Energy \in {R(5, 2), R(3, 2)} }
                      \cup { [Energy |-> R(1, 1)] }
    IN  with_id \cup without_id

IdOf(i) == <<"s", i>>

\* every session that has an Id has its own
Stamp(session, i) ==
    IF "Id" \in DOMAIN session THEN Merge(session, [Id |-> IdOf(i)]) ELSE session

\* data is a document of at most MaxSessions sessions
IsDocument(d) ==
    \E n \in 0..MaxSessions :
        \E f \in [1..n -> SessionPool] : d = [i \in 1..n |-> Stamp(f[i], i)]

(***************************************************************************)
(* ChargeHistoryParser.parse as a state machine: one step per iteration of *)
(* "for item in data_item", then the return.                               *)
(*                                                                         *)
(*   data      the list parsed["Data"]                                     *)
(*   pos       the position of the item the loop takes next                *)
(*   result    the dict result, in insertion order: a sequence of          *)
(*             [key, value] with value a UserChargeHistory                 *)
(*   pc        "loop", "returned" or "raised"                              *)
(*   returned  what the caller received: <<the returned dict>>, or <<>>    *)
(*   error     the exception the caller received, or NoError               *)
(*   warnings  the Ids of the WARNING lines printed, in order              *)
(*   last      what the last iteration did: the position of its item, the  *)
(*             branch taken, the outcome, the assignments it made to       *)
(*             history.consumption and the ratios it computed              *)
(*   log       every assignment to a consumption made so far, with the     *)
(*             user and the position of the session                        *)
(*   ft, fr, frr, fpc   a timestamp, time_floor of it, time_floor of that, *)
(*             and how far these have been computed                        *)
(*   call      which call of parse on this parser is running: "first",     *)
(*             "other" (a call on another document) or "second"            *)
(*   subject   the document of the first and of the second call            *)
(*   first     how the first call ended: pc, returned, error and warnings  *)
(***************************************************************************)
VARIABLES data, pos, result, pc, returned, error, warnings, last, log,
          ft, fr, frr, fpc, call, subject, first

parse_vars == <<data, pos, result, pc, returned, error, warnings, last, log>>

floor_vars == <<ft, fr, frr, fpc>>

call_vars == <<call, subject, first>>

vars == <<data, pos, result, pc, returned, error, warnings, last, log,
          ft, fr, frr, fpc, call, subject, first>>

NoOutcome == [pc |-> "none", returned |-> <<>>, error |-> <<>>, warnings |-> <<>>]

UnknownId == <<"<unknown-id>">>

NoId == <<>>

NoError == [type |-> "none", text |-> "", id |-> NoId, cause |-> "none"]

NoStep == [index |-> 0, branch |-> "none", outcome |-> "none",
           writes |-> <<>>, ratios |-> <<>>]

NoTime == Dt(1, 0, 0, 0, 0, Naive)

\* id = item["Id"] if "Id" in item else "<unknown-id>"
SessionId(item) == IF "Id" \in DOMAIN item THEN item.Id ELSE UnknownId

HasUser(res, user_name) == \E k \in 1..Len(res) : res[k].key = user_name

\* result.get(user_name, UserChargeHistory(user_name, item["UserFullName"], {}))
GetHistory(res, item) ==
    IF HasUser(res, item.UserUserName)
    THEN res[CHOOSE k \in 1..Len(res) : res[k].key = item.UserUserName].value
    ELSE [user_name |-> item.UserUserName, full_name |-> item.UserFullName,
          consumption |-> <<>>]

\* result[user_name] = history
PutHistory(res, user_name, history) ==
    IF HasUser(res, user_name)
    THEN [k \in 1..Len(res) |->
            IF res[k].key = user_name THEN [key |-> user_name, value |-> history]
            ELSE res[k]]
    ELSE Append(res, [key |-> user_name, value |-> history])

\* str < str: by code points, a proper prefix first
RECURSIVE StrLess(_, _)
StrLess(a, b) ==
    IF b = <<>> THEN FALSE
    ELSE IF a = <<>> THEN TRUE
    ELSE IF Head(a) # Head(b) THEN Head(a) < Head(b)
    ELSE StrLess(Tail(a), Tail(b))

\* the items in insertion order
SortedItems_unsorted(res) == res

\* sorted(result.items()): stable, by key
RECURSIVE Insert(_, _)
Insert(sorted, entry) ==
    IF sorted = <<>> THEN <<entry>>
    ELSE IF StrLess(entry.key, Head(sorted).key)
    THEN <<entry>> \o sorted
    ELSE <<Head(sorted)>> \o Insert(Tail(sorted), entry)

RECURSIVE SortedItems(_)
SortedItems(res) ==
    IF res = <<>> THEN <<>>
    ELSE Insert(SortedItems(SubSeq(res, 1, Len(res) - 1)), res[Len(res)])

\* the exception parse lets out for an exception of class ex raised inside
\* the try block: a KeyError is wrapped, anything else passes as raised
Propagate(ex, id) ==
    IF ex = "KeyError"
    THEN [type |-> "Exception", text |-> "Error with id {id}", id |-> id,
          cause |-> "KeyError"]
    ELSE [type |-> ex, text |-> "", id |-> NoId, cause |-> "none"]

\* float(item["Energy"]) >= 0
AnonymousHasEnergy_or_zero(item) == ~RLess(item.Energy, RZero)

\* float(item["Energy"]) > 0
AnonymousHasEnergy(item) == RLess(RZero, item.Energy)

InLoop == pc = "loop" /\ pos <= Len(data)

\* a failed session dropped and the loop carried on
Finish_skips_failed(item, branch, r) ==
    LET user_name == item.UserUserName
        history   == GetHistory(result, item)
        updated   == [history EXCEPT !.consumption = r.consumption]
    IN  /\ last' = [index |-> pos, branch |-> branch, outcome |-> r.outcome,
                    writes |-> r.writes, ratios |-> r.ratios]
        /\ log' = log \o [k \in 1..Len(r.writes) |->
                            [user |-> user_name, key |-> r.writes[k].key,
                             index |-> pos]]
        /\ result' = IF r.outcome = "ok" \/ HasUser(result, user_name)
                     THEN PutHistory(result, user_name, updated)
                     ELSE result
        /\ pos' = pos + 1
        /\ UNCHANGED <<pc, error>>
        /\ UNCHANGED <<data, returned, floor_vars, call_vars>>

\* the end of an iteration of the try block that ran an update with result r
Finish(item, branch, r) ==
    LET user_name == item.UserUserName
        history   == GetHistory(result, item)
        updated   == [history EXCEPT !.consumption = r.consumption]
    IN  /\ last' = [index |-> pos, branch |-> branch, outcome |-> r.outcome,
                    writes |-> r.writes, ratios |-> r.ratios]
        /\ log' = log \o [k \in 1..Len(r.writes) |->
                            [user |-> user_name, key |-> r.writes[k].key,
                             index |-> pos]]
        /\ IF r.outcome = "ok"
           THEN /\ result' = PutHistory(result, user_name, updated)
                /\ pos' = pos + 1
                /\ UNCHANGED <<pc, error>>
           ELSE \* a history already in result has been changed in place
                /\ result' = IF HasUser(result, user_name)
                             THEN PutHistory(result, user_name, updated)
                             ELSE result
                /\ pc' = "raised"
                /\ error' = Propagate(r.outcome, SessionId(item))
                /\ UNCHANGED pos
        /\ UNCHANGED <<data, returned, floor_vars, call_vars>>

\* an item without UserUserName and without energy: continue
SkipAnonymous ==
    /\ InLoop
    /\ "UserUserName" \notin DOMAIN data[pos]
    /\ "Energy" \in DOMAIN data[pos]
    /\ ~AnonymousHasEnergy(data[pos])
    /\ pos' = pos + 1
    /\ last' = [NoStep EXCEPT !.index = pos, !.branch = "anonymous", !.outcome = "skip"]
    /\ UNCHANGED <<data, result, pc, returned, error, warnings, log, floor_vars, call_vars>>

\* an item without UserUserName and with energy: RuntimeError
RaiseAnonymous ==
    /\ InLoop
    /\ "UserUserName" \notin DOMAIN data[pos]
    /\ "Energy" \in DOMAIN data[pos]
    /\ AnonymousHasEnergy(data[pos])
    /\ pc' = "raised"
    /\ error' = [type |-> "RuntimeError",
                 text |-> "Found charging session {id} without user identification!",
                 id |-> SessionId(data[pos]), cause |-> "none"]
    /\ last' = [NoStep EXCEPT !.index = pos, !.branch = "anonymous",
                              !.outcome = "RuntimeError"]
    /\ UNCHANGED <<data, pos, result, returned, warnings, log, floor_vars, call_vars>>

\* an item without UserUserName and without Energy: item["Energy"] raises
\* KeyError outside the try block
AnonymousWithoutEnergy ==
    /\ InLoop
    /\ "UserUserName" \notin DOMAIN data[pos]
    /\ "Energy" \notin DOMAIN data[pos]
    /\ pc' = "raised"
    /\ error' = [type |-> "KeyError", text |-> "", id |-> NoId, cause |-> "none"]
    /\ last' = [NoStep EXCEPT !.index = pos, !.branch = "anonymous",
                              !.outcome = "KeyError"]
    /\ UNCHANGED <<data, pos, result, returned, warnings, log, floor_vars, call_vars>>

\* item["UserFullName"] or item["Energy"] raises KeyError in the try block
MissingSessionField ==
    /\ InLoop
    /\ "UserUserName" \in DOMAIN data[pos]
    /\ "UserFullName" \notin DOMAIN data[pos] \/ "Energy" \notin DOMAIN data[pos]
    /\ pc' = "raised"
    /\ error' = Propagate("KeyError", SessionId(data[pos]))
    /\ last' = [NoStep EXCEPT !.index = pos, !.branch = "fields",
                              !.outcome = "KeyError"]
    /\ UNCHANGED <<data, pos, result, returned, warnings, log, floor_vars, call_vars>>

Identified(item) ==
    /\ "UserUserName" \in DOMAIN item
    /\ "UserFullName" \in DOMAIN item
    /\ "Energy" \in DOMAIN item

Warn_silent(printed, item) == printed

\* print("WARNING: session ... has no energy details"), naming the Id
Warn(printed, item) == Append(printed, SessionId(item))

\* Mode A: the session has EnergyDetails
SessionWithDetails ==
    /\ InLoop
    /\ Identified(data[pos])
    /\ "EnergyDetails" \in DOMAIN data[pos]
    /\ Finish(data[pos], "A",
              update_history_with_energy_details(
                  GetHistory(result, data[pos]).consumption,
                  data[pos].EnergyDetails, data[pos].Energy))
    /\ UNCHANGED warnings

\* Mode B: no EnergyDetails; the warning is printed before the timestamps
\* are read
SessionWithoutDetails ==
    /\ InLoop
    /\ Identified(data[pos])
    /\ "EnergyDetails" \notin DOMAIN data[pos]
    /\ warnings' = Warn(warnings, data[pos])
    /\ IF "StartDateTime" \notin DOMAIN data[pos] \/ "EndDateTime" \notin DOMAIN data[pos]
       THEN Finish(data[pos], "B",
                   [outcome |-> "KeyError",
                    consumption |-> GetHistory(result, data[pos]).consumption,
                    total |-> RZero, writes |-> <<>>, ratios |-> <<>>])
       ELSE Finish(data[pos], "B",
                   update_history_with_session_energy(
                       GetHistory(result, data[pos]).consumption,
                       data[pos].Energy,
                       fallback_utc(data[pos].StartDateTime),
                       fallback_utc(data[pos].EndDateTime)))

\* return dict(sorted(result.items()))
Return ==
    /\ pc = "loop"
    /\ pos > Len(data)
    /\ pc' = "returned"
    /\ returned' = <<SortedItems(result)>>
    /\ UNCHANGED <<data, pos, result, error, warnings, last, log, floor_vars, call_vars>>

Init ==
    /\ IsDocument(data)
    /\ pos = 1
    /\ result = <<>>
    /\ pc = "loop"
    /\ returned = <<>>
    /\ error = NoError
    /\ warnings = <<>>
    /\ last = NoStep
    /\ log = <<>>
    /\ ft = NoTime /\ fr = NoTime /\ frr = NoTime /\ fpc = "idle"
    /\ call = "first" /\ subject = data /\ first = NoOutcome

Next ==
    \/ SkipAnonymous
    \/ RaiseAnonymous
    \/ AnonymousWithoutEnergy
    \/ MissingSessionField
    \/ SessionWithDetails
    \/ SessionWithoutDetails
    \/ Return

Spec == Init /\ [][Next]_vars

(***************************************************************************)
(* Calls of parse one after another on one ChargeHistoryParser: the first  *)
(* on a document, then perhaps one on another document, then a second on   *)
(* the first document.  A call begins with result = {}; the class has no   *)
(* attributes and the module no globals that parse writes.                 *)
(***************************************************************************)
Ended == pc \in {"returned", "raised"}

\* the result of the earlier call kept, as an attribute of the parser would be
ResultAtEntry_kept(left_behind) == left_behind

\* result = {} at the entry of parse, whatever result an earlier call left
\* behind
ResultAtEntry(left_behind) == <<>>

\* another document: a detailed session of "al" over the buckets of
\* 2023-12-07, and a fallback session of "al" on 2023-12-01
OtherDocument ==
    << [Id |-> IdOf(1), UserUserName |-> Al, UserFullName |-> "Al A",
        Energy |-> R(5, 2),
        EnergyDetails |-> << Det(Dt(Dec7, 22, 15, 0, 0, Utc), R(1, 1)),
                             Det(Dt(Dec7, 22, 30, 0, 0, Utc), R(3, 2)) >>],
       [Id |-> IdOf(2), UserUserName |-> Al, UserFullName |-> "Al A",
        Energy |-> R(2, 1),
        StartDateTime |-> Dt(Dec1, 10, 0, 0, 0, Utc),
        EndDateTime   |-> Dt(Dec1, 10, 20, 0, 0, Utc)] >>

\* the entry of a call of parse on document d
Enter(d) ==
    /\ data' = d
    /\ result' = ResultAtEntry(result)
    /\ pos' = 1
    /\ pc' = "loop"
    /\ returned' = <<>>
    /\ error' = NoError
    /\ warnings' = <<>>
    /\ last' = NoStep
    /\ log' = <<>>
    /\ UNCHANGED floor_vars

CallOther ==
    /\ call = "first"
    /\ Ended
    /\ call' = "other"
    /\ first' = [pc |-> pc, returned |-> returned, error |-> error,
                 warnings |-> warnings]
    /\ Enter(OtherDocument)
    /\ UNCHANGED subject

CallAgain ==
    /\ call \in {"first", "other"}
    /\ Ended
    /\ call' = "second"
    /\ first' = IF call = "first"
                THEN [pc |-> pc, returned |-> returned, error |-> error,
                      warnings |-> warnings]
                ELSE first
    /\ Enter(subject)
    /\ UNCHANGED subject

NextCalls ==
    \/ Next
    \/ CallOther
    \/ CallAgain

SpecCalls == Init /\ [][NextCalls]_vars

(***************************************************************************)
(* time_floor on its own: a timestamp, its floor, and the floor of that.   *)
(***************************************************************************)
FloorInputs ==
    { Dt(ord, hour, minute, second, microsecond, tzinfo) :
        ord \in {Dec1, Dec1 + 9},
        hour \in {0, 9, 20, 23},
        minute \in {0, 14, 15, 29, 31, 45, 59},
        second \in {0, 22, 59},
        microsecond \in {0, 1, 473000, 999000, 999999},
        tzinfo \in {Naive, Utc, <<7200>>, <<20700>>, <<-12600>>} }

InitFloor ==
    /\ ft \in FloorInputs
    /\ fr = NoTime /\ frr = NoTime /\ fpc = "input"
    /\ data = <<>> /\ pos = 1 /\ result = <<>> /\ pc = "idle"
    /\ returned = <<>> /\ error = NoError /\ warnings = <<>>
    /\ last = NoStep /\ log = <<>>
    /\ call = "none" /\ subject = <<>> /\ first = NoOutcome

FloorOnce ==
    /\ fpc = "input"
    /\ fr' = time_floor(ft, DefaultFloorToSeconds)
    /\ fpc' = "floored"
    /\ UNCHANGED <<ft, frr, parse_vars, call_vars>>

FloorAgain ==
    /\ fpc = "floored"
    /\ frr' = time_floor(fr, DefaultFloorToSeconds)
    /\ fpc' = "twice"
    /\ UNCHANGED <<ft, fr, parse_vars, call_vars>>

NextFloor == FloorOnce \/ FloorAgain

SpecFloor == InitFloor /\ [][NextFloor]_vars

(***************************************************************************)
(* Properties                                                              *)
(***************************************************************************)
RECURSIVE SumValues(_)
SumValues(writes) ==
    IF writes = <<>> THEN RZero
    ELSE RAdd(Head(writes).value, SumValues(Tail(writes)))

OnGrid(time) ==
    /\ time.second = 0
    /\ time.microsecond = 0
    /\ time.minute \in {0, 15, 30, 45}

LastItem == data[last.index]

\* C1: a session that Mode A or Mode B processed without raising assigned
\* bucket energies whose sum differs from its Energy by less than 0.0001.
C1_EnergyConserved ==
    (last.branch \in {"A", "B"} /\ last.outcome = "ok")
        => RLess(RAbs(RSub(LastItem.Energy, SumValues(last.writes))), <<1, 10000>>)

\* a Mode B session over three buckets has been processed
C1_Witness ==
    /\ last.branch = "B"
    /\ last.outcome = "ok"
    /\ Len(last.writes) = 3
    /\ pc = "returned"

\* C2: no bucket of a user is ever assigned twice during a parse, by
\* whichever mode and whichever session.
C2_NoBucketWrittenTwice ==
    \A i, j \in 1..Len(log) :
        (i # j /\ log[i].user = log[j].user) => ~DtEq(log[i].key, log[j].key)

\* C3: a session without UserUserName is skipped with nothing changed and
\* nothing printed when its Energy is 0, and raises an error naming its Id
\* when its Energy is positive.
C3_AnonymousSessions ==
    [][ (/\ InLoop
         /\ "UserUserName" \notin DOMAIN data[pos]
         /\ "Energy" \in DOMAIN data[pos])
        => /\ data[pos].Energy = RZero
                => /\ pc' = "loop"
                   /\ pos' = pos + 1
                   /\ result' = result
                   /\ warnings' = warnings
                   /\ error' = NoError
                   /\ returned' = <<>>
           /\ RLess(RZero, data[pos].Energy)
                => /\ pc' = "raised"
                   /\ returned' = <<>>
                   /\ error'.text =
                        "Found charging session {id} without user identification!"
                   /\ error'.id = SessionId(data[pos]) ]_vars

\* an anonymous session without energy was skipped after a session that
\* made an entry
C3_Witness ==
    /\ last.branch = "anonymous"
    /\ last.outcome = "skip"
    /\ result # <<>>

WellFormed(energy_details) ==
    \A i \in 1..Len(energy_details) :
        {"Timestamp", "Energy"} \subseteq DOMAIN energy_details[i]

\* the buckets of the claim, for the sub-readings from index i on
RECURSIVE ExpectedWrites(_, _)
ExpectedWrites(energy_details, i) ==
    IF i > Len(energy_details) THEN <<>>
    ELSE LET d      == energy_details[i]
             floor  == time_floor(d.Timestamp, 900)
             bucket == IF i = Len(energy_details) THEN floor
                       ELSE DtAdd(floor, timedelta(0, -900, 0))
         IN  (IF RLess(RZero, d.Energy)
              THEN << [key |-> bucket, value |-> d.Energy] >>
              ELSE << >>)
             \o ExpectedWrites(energy_details, i + 1)

IsPrefix(a, b) == Len(a) <= Len(b) /\ a = SubSeq(b, 1, Len(a))

ExampleDetails ==
    << Det(Dt(Dec7, 22, 15, 0, 0, Utc), R(1, 1)),
       Det(Dt(Dec7, 22, 30, 0, 0, Utc), R(3, 2)) >>

\* C4: in Mode A a sub-reading with energy > 0 goes to the bucket
\* time_floor(timestamp) when it is the last of all sub-readings and to the
\* bucket 15 minutes before it otherwise, a sub-reading without energy makes
\* no bucket; the readings (22:15, 1.0), (22:30, 1.5) with Energy 2.5 give
\* exactly {22:00: 1.0, 22:30: 1.5}.
C4_DetailBuckets ==
    (last.branch = "A" /\ WellFormed(LastItem.EnergyDetails))
        => /\ IsPrefix(last.writes, ExpectedWrites(LastItem.EnergyDetails, 1))
           /\ last.outcome \in {"ok", "AssertionError"}
                => last.writes = ExpectedWrites(LastItem.EnergyDetails, 1)
           /\ (/\ LastItem.EnergyDetails = ExampleDetails
               /\ LastItem.Energy = R(5, 2)
               /\ last.index = 1)
                => /\ last.outcome = "ok"
                   /\ result[1].value.consumption =
                        << [key |-> Dt(Dec7, 22, 0, 0, 0, Utc), value |-> R(1, 1)],
                           [key |-> Dt(Dec7, 22, 30, 0, 0, Utc), value |-> R(3, 2)] >>

\* a session whose last sub-reading has no energy made its one bucket
\* 15 minutes before the floor of the first
C4_Witness ==
    /\ last.branch = "A"
    /\ last.outcome = "ok"
    /\ Len(LastItem.EnergyDetails) = 2
    /\ LastItem.EnergyDetails[2].Energy = RZero
    /\ Len(last.writes) = 1
    /\ last.writes[1].key = Dt(Dec7, 22, 0, 0, 0, Utc)

IsFallbackExample(item) ==
    /\ "EnergyDetails" \notin DOMAIN item
    /\ {"StartDateTime", "EndDateTime", "Energy"} \subseteq DOMAIN item
    /\ item.StartDateTime = Dt(Dec1, 10, 0, 0, 0, Utc)
    /\ item.EndDateTime = Dt(Dec1, 10, 20, 0, 0, Utc)
    /\ item.Energy = R(2, 1)

\* C5 as stated: the session 10:00Z to 10:20Z with Energy 2.0 gives the
\* buckets 10:00 and 10:15 with ratio 0.5 and energy 1.0 each.
C5_Original ==
    (last.branch = "B" /\ IsFallbackExample(LastItem))
        => /\ last.outcome = "ok"
           /\ last.ratios = << R(1, 2), R(1, 2) >>
           /\ last.writes =
                << [key |-> Dt(Dec1, 10, 0, 0, 0, Utc), value |-> R(1, 1)],
                   [key |-> Dt(Dec1, 10, 15, 0, 0, Utc), value |-> R(1, 1)] >>

\* C5 amended: the session 10:00Z to 10:20Z with Energy 2.0 gives exactly
\* the bucket 10:00 with ratio 15/20 and energy 1.5 and the bucket 10:15
\* with ratio 5/20 and energy 0.5, 2.0 in all.
C5_FallbackExample ==
    (last.branch = "B" /\ IsFallbackExample(LastItem))
        => /\ last.outcome = "ok"
           /\ last.ratios = << R(3, 4), R(1, 4) >>
           /\ last.writes =
                << [key |-> Dt(Dec1, 10, 0, 0, 0, Utc), value |-> R(3, 2)],
                   [key |-> Dt(Dec1, 10, 15, 0, 0, Utc), value |-> R(1, 2)] >>
           /\ SumValues(last.writes) = R(2, 1)

C5_Witness ==
    /\ last.branch = "B"
    /\ IsFallbackExample(LastItem)
    /\ Len(last.writes) = 2

\* C6: time_floor(t, 900) is the largest timestamp r <= t on the 15-minute
\* grid: 0 <= t - r < 900 s, r has no seconds and no microseconds and a
\* minute in {0, 15, 30, 45}, and r has the date and the hour of t.
C6_FloorOnGrid ==
    fpc \in {"floored", "twice"}
        => /\ OnGrid(fr)
           /\ fr.ord = ft.ord
           /\ fr.hour = ft.hour
           /\ fr.tzinfo = ft.tzinfo
           /\ DtSub(ft, fr).days = 0
           /\ DtSub(ft, fr).seconds < 900
           /\ ft = Dt(Dec1, 20, 29, 59, 999000, Utc)
                => fr = Dt(Dec1, 20, 15, 0, 0, Utc)
           /\ ft = Dt(Dec1 + 9, 9, 31, 22, 473000, Utc)
                => fr = Dt(Dec1 + 9, 9, 30, 0, 0, Utc)

\* 20:29:59.999 has been floored
C6_Witness ==
    /\ fpc = "floored"
    /\ ft = Dt(Dec1, 20, 29, 59, 999000, Utc)
    /\ fr # ft

\* C7: time_floor(time_floor(t, 900), 900) = time_floor(t, 900).
C7_FloorIdempotent == fpc = "twice" => frr = fr

\* a timestamp off the grid has been floored twice
C7_Witness ==
    /\ fpc = "twice"
    /\ ~OnGrid(ft)
    /\ OnGrid(frr)

UserNamesOf(d) ==
    { d[i].UserUserName : i \in { k \in 1..Len(d) : "UserUserName" \in DOMAIN d[k] } }

\* C8: the returned map has exactly one entry for each UserUserName of the
\* document, each entry's user_name is its key, and the entries are in
\* ascending order of user name.
C8_ReturnedMap ==
    pc = "returned"
        => LET m == returned[1]
           IN  /\ { m[k].key : k \in 1..Len(m) } = UserNamesOf(data)
               /\ Len(m) = Cardinality(UserNamesOf(data))
               /\ \A k \in 1..Len(m) : m[k].value.user_name = m[k].key
               /\ \A k \in 1..(Len(m) - 1) : StrLess(m[k].key, m[k + 1].key)

\* "bo" came before "al" in the document
C8_Witness ==
    /\ pc = "returned"
    /\ Len(data) = 2
    /\ "UserUserName" \in DOMAIN data[1] /\ data[1].UserUserName = Bo
    /\ "UserUserName" \in DOMAIN data[2] /\ data[2].UserUserName = Al
    /\ Len(returned[1]) = 2

Failed(step) == step.outcome \notin {"none", "ok", "skip"}

\* C9: sessions are taken in input order; the first session that fails ends
\* the parse at once with an error and no map, no later session is taken
\* and none is taken again; a map is returned only after every session has
\* been processed without error.
C9_FailFast ==
    [][ /\ pc = "loop"
        /\ pc' = "loop"
             => /\ pos <= Len(data)
                /\ pos' = pos + 1
                /\ last'.index = pos
                /\ ~Failed(last')
        /\ pc' = "raised"
             => /\ pos <= Len(data)
                /\ pos' = pos
                /\ last'.index = pos
                /\ Failed(last')
                /\ error' # NoError
                /\ returned' = <<>>
        /\ pc' = "returned"
             => /\ pos = Len(data) + 1
                /\ ~Failed(last)
                /\ error' = NoError
                /\ returned' # <<>>
        /\ Failed(last') => pc' = "raised" ]_vars

\* the first of two sessions failed, and the second would have been skipped
C9_Witness ==
    /\ pc = "raised"
    /\ pos = 1
    /\ Len(data) = 2
    /\ DOMAIN data[2] = {"Id", "Energy"}
    /\ data[2].Energy = RZero

IntegrityViolation(step) ==
    \/ step.branch = "anonymous" /\ step.outcome = "RuntimeError"
    \/ step.branch = "A" /\ step.outcome = "RuntimeError"
    \/ step.branch \in {"A", "B"} /\ step.outcome = "AssertionError"

\* C10: when parse fails for an anonymous session with energy, a bucket
\* collision or an energy mismatch, the error names the session's Id, or
\* the unknown-id sentinel.
C10_ErrorNamesSession ==
    (pc = "raised" /\ IntegrityViolation(last))
        => error.id = SessionId(LastItem)

IsZeroDuration(item) ==
    /\ {"StartDateTime", "EndDateTime"} \subseteq DOMAIN item
    /\ DtEq(fallback_utc(item.StartDateTime), fallback_utc(item.EndDateTime))

\* C11: a Mode B session whose StartDateTime equals its EndDateTime makes
\* parse fail, and with an error of its own, never with the
\* ZeroDivisionError of the ratio.
C11_ZeroDurationReported ==
    (last.branch = "B" /\ IsZeroDuration(LastItem))
        => /\ pc = "raised"
           /\ error.type # "ZeroDivisionError"

\* C12: a second call of parse on the same document ends as the first did,
\* with the same map or the same error and the same warnings, whether or
\* not the parser parsed another document in between.
C12_SameOutcome ==
    (call = "second" /\ Ended)
        => first = [pc |-> pc, returned |-> returned, error |-> error,
                    warnings |-> warnings]

\* the second call returned a map for two users after a call on another
\* document
C12_Witness ==
    /\ call = "second"
    /\ pc = "returned"
    /\ Len(returned[1]) = 2
    /\ first.pc = "returned"
    /\ \E k \in 1..Len(subject) :
          "EnergyDetails" \in DOMAIN subject[k] /\ subject[k].EnergyDetails # <<>>

ZeroTd == timedelta(0, 0, 0)

\* the length of the intersection of [b, b + 15 min) with [start, end)
Overlap(b, start, end) ==
    LET lo == IF DtLess(b, start) THEN start ELSE b
        hi == IF DtLess(end, DtAdd(b, timedelta(0, 900, 0))) THEN end
              ELSE DtAdd(b, timedelta(0, 900, 0))
    IN  IF DtLess(lo, hi) THEN DtSub(hi, lo) ELSE ZeroTd

\* the k-th bucket walked from start
Bucket(start, k) == DtAdd(time_floor(start, 900), timedelta(0, 900 * (k - 1), 0))

BucketsAsClaimed(item, step) ==
    LET start == fallback_utc(item.StartDateTime)
        end   == fallback_utc(item.EndDateTime)
    IN  \A k \in 1..Len(step.writes) :
           LET b == Bucket(start, k)
               d == duration(b, start, end)
           IN  /\ step.writes[k].key = b
               /\ DtLess(b, end)
               /\ d = Overlap(b, start, end)
               /\ ~TdLess(d, ZeroTd)
               /\ ~TdLess(timedelta(0, 900, 0), d)
               /\ step.ratios[k] = TdRatio(Overlap(b, start, end), DtSub(end, start))
               /\ step.writes[k].value = RMul(step.ratios[k], item.Energy)

\* C13: in Mode B the duration used for a bucket b is the length of the
\* intersection of [b, b + 15 min) with [startTime, endTime), so it is at
\* least 0 and at most 15 minutes, and the bucket's energy is that duration
\* over endTime - startTime times the session's Energy.
C13_BucketOverlap ==
    (/\ last.branch = "B"
     /\ {"StartDateTime", "EndDateTime"} \subseteq DOMAIN LastItem)
        => BucketsAsClaimed(LastItem, last)

\* a field that parse reads from the session is not there
MissingField(item) ==
    \/ "Energy" \notin DOMAIN item
    \/ /\ "UserUserName" \in DOMAIN item
       /\ \/ "UserFullName" \notin DOMAIN item
          \/ /\ "EnergyDetails" \notin DOMAIN item
             /\ ~({"StartDateTime", "EndDateTime"} \subseteq DOMAIN item)
          \/ /\ "EnergyDetails" \in DOMAIN item
             /\ ~WellFormed(item.EnergyDetails)

\* C14: a session with a required field missing makes parse fail, and the
\* error for the missing field carries the session's Id (or the unknown-id
\* sentinel), for an anonymous session as for an identified one.
C14_MissingFieldNamesSession ==
    (last.index > 0 /\ MissingField(LastItem))
        => /\ pc = "raised"
           /\ last.outcome = "KeyError"
                => /\ error.type = "Exception"
                   /\ error.text = "Error with id {id}"
                   /\ error.id = SessionId(LastItem)

\* C15: at every point of a parse every key of every user's consumption is
\* on the 15-minute grid, whichever mode wrote it.
C15_KeysOnGrid ==
    /\ \A u \in 1..Len(result) :
          \A k \in 1..Len(result[u].value.consumption) :
             OnGrid(result[u].value.consumption[k].key)
    /\ \A k \in 1..Len(log) : OnGrid(log[k].key)

\* a user has buckets from a detailed session in another zone and from a
\* fallback session that starts and ends off the grid
C15_Witness ==
    /\ Len(data) = 2
    /\ pos = 3
    /\ Len(result) = 1
    /\ "EnergyDetails" \in DOMAIN data[1]
    /\ Len(data[1].EnergyDetails) = 1
    /\ data[1].EnergyDetails[1].Timestamp.tzinfo = <<7200>>
    /\ last.branch = "B"
    /\ ~OnGrid(data[2].StartDateTime)
    /\ ~OnGrid(data[2].EndDateTime)
    /\ Len(result[1].value.consumption) = 4

\* a session with the keys of required and without EnergyDetails
IsFallback(item, required) ==
    required \subseteq DOMAIN item /\ "EnergyDetails" \notin DOMAIN item

RECURSIVE WarnedIds(_, _, _)
\* the Ids of the fallback sessions among d[1..n], in order
WarnedIds(d, n, required) ==
    IF n = 0 THEN <<>>
    ELSE WarnedIds(d, n - 1, required)
         \o (IF IsFallback(d[n], required) THEN <<SessionId(d[n])>> ELSE <<>>)

NonAnonymous(item) == "UserUserName" \in DOMAIN item

\* C16 as stated: every session with UserUserName goes to Mode A when it
\* has EnergyDetails and to Mode B otherwise, and the warnings printed are
\* exactly one for each session with UserUserName and without EnergyDetails.
C16_Original ==
    last.index > 0
        => /\ NonAnonymous(LastItem)
                => last.branch = IF "EnergyDetails" \in DOMAIN LastItem
                                 THEN "A" ELSE "B"
           /\ warnings = WarnedIds(data, last.index, {"UserUserName"})

\* C16 amended: every session with UserUserName, UserFullName and Energy
\* goes to Mode A when it has EnergyDetails and to Mode B otherwise; a
\* session with UserUserName that lacks UserFullName or Energy fails before
\* any mode is chosen; no other session reaches a mode; the warnings
\* printed are exactly one, naming the Id, for each session that went to
\* Mode B, and a warning by itself does not end the parse.
C16_ModeDispatch ==
    last.index > 0
        => /\ {"UserUserName", "UserFullName", "Energy"} \subseteq DOMAIN LastItem
                => last.branch = IF "EnergyDetails" \in DOMAIN LastItem
                                 THEN "A" ELSE "B"
           /\ (/\ NonAnonymous(LastItem)
               /\ ~({"UserFullName", "Energy"} \subseteq DOMAIN LastItem))
                => last.branch = "fields" /\ pc = "raised"
           /\ ~NonAnonymous(LastItem) => last.branch = "anonymous"
           /\ warnings = WarnedIds(data, last.index, {"UserUserName", "UserFullName", "Energy"})
           /\ (last.branch = "B" /\ last.outcome = "ok") => pc # "raised"

\* two fallback sessions were processed, two warnings printed, and the
\* parse returned
C16_Witness ==
    /\ pc = "returned"
    /\ Len(warnings) = 2
    /\ warnings[1] = IdOf(1)
    /\ warnings[2] = UnknownId

RECURSIVE EnergyOf(_, _, _)
\* the sum of the Energy fields of the sessions of user among d[1..n]
EnergyOf(d, n, user) ==
    IF n = 0 THEN RZero
    ELSE RAdd(EnergyOf(d, n - 1, user),
              IF NonAnonymous(d[n]) /\ d[n].UserUserName = user
              THEN d[n].Energy ELSE RZero)

SessionsOf(d, user) ==
    Cardinality({i \in 1..Len(d) : NonAnonymous(d[i]) /\ d[i].UserUserName = user})

\* C17: when parse returns, every user's consumption sums to the sum of the
\* Energy fields of that user's sessions, within 0.0001 per session.
C17_UserEnergyConserved ==
    pc = "returned"
        => \A u \in 1..Len(returned[1]) :
              RLess(RAbs(RSub(EnergyOf(data, Len(data), returned[1][u].key),
                              SumValues(returned[1][u].value.consumption))),
                    RMul(Tolerance, <<SessionsOf(data, returned[1][u].key), 1>>))

====
